---------------------------- MODULE Spec2Model ----------------------------
(***************************************************************************)
(* Task tracker of simple_backend/src/task_tracker: the storage classes    *)
(* JsonBinStorage and FileStorage of main.py, FileStorage of               *)
(* main_with_json.py, and the four HTTP endpoints in front of them.        *)
(*                                                                         *)
(* One storage implementation is active per process (main.py:202,          *)
(* main_with_json.py:72).  The persisted medium (the JSONBin record or the *)
(* tasks.json file) outlives the process; a restart runs the constructor   *)
(* again on whatever the medium holds.                                     *)
(***************************************************************************)
EXTENDS Integers, Sequences, FiniteSets

VARIABLES
    impl,      \* the storage implementation the process was started with
    store,     \* the persisted medium: the JSON document, or no document
    lastOp,    \* the most recent call and its arguments
    ret,       \* what the most recent call returned / raised
    before,    \* the medium as it was when the most recent call started
    prevOp,    \* the call before the most recent one, summarised
    run,       \* creates that succeeded since the constructor left the empty
               \* document, while no delete has succeeded; -1 otherwise
    issued,    \* ids returned by the creates of this run of the process
    earlier,   \* ids returned by creates in earlier runs on the same medium,
               \* since a constructor whose GET failed last replaced it
    torn,      \* tasks.json was opened for writing and the write then failed
    workers,   \* requests in progress, one per worker thread
    raced,     \* some request saved a document loaded before another save
    dupIssued, \* some create returned an id an earlier create had returned
    started    \* requests the workers have taken so far

\* the variables only the overlapping-requests and failing-storage
\* specifications change
aside == <<torn, workers, raced, dupIssued, started>>

vars == <<impl, store, lastOp, ret, before, prevOp, run, issued, earlier, aside>>

---------------------------------------------------------------------------
\* Bounds of the model and input domains.

\* create is not called any more once last_id has reached MaxId
MaxId == 2

Impls == {"jsonbin", "file", "with_json"}

Titles == {"Buy milk", "Buy bread"}

Statuses == {"pending", "done"}

\* Python's None: an optional field left out of the request body
None == "None"

\* ids a client may ask for
TaskIds == 1 .. MaxId

---------------------------------------------------------------------------
\* The persisted medium.  A JSON object is modelled by its two keys and
\* whether each is present; a key that is absent carries a fixed filler.

NoTask == [id |-> 0, title |-> "", status |-> ""]

Absent ==
    [exists |-> FALSE, has_tasks |-> FALSE, tasks |-> <<>>,
     has_last_id |-> FALSE, last_id |-> 0]

EmptyDoc ==
    [exists |-> TRUE, has_tasks |-> TRUE, tasks |-> <<>>,
     has_last_id |-> TRUE, last_id |-> 0]

\* documents that lack one or both keys
MalformedDocs ==
    { [exists |-> TRUE, has_tasks |-> ht, tasks |-> <<>>,
       has_last_id |-> hl, last_id |-> 0] :
          ht \in BOOLEAN, hl \in BOOLEAN } \ {EmptyDoc}

\* what the medium may hold the first time the process is started
InitialMedia == {Absent, EmptyDoc} \cup MalformedDocs

WellFormed(data) == data.exists /\ data.has_tasks /\ data.has_last_id

Ids(tasks) == { tasks[i].id : i \in 1 .. Len(tasks) }

MaxOf(S) == IF S = {} THEN 0 ELSE CHOOSE m \in S : \A x \in S : x <= m

\* index of the first task with this id, 0 when there is none: the
\* `for ... in data["tasks"]: if t["id"] == task_id` loops
FirstIdx(tasks, task_id) ==
    IF \E i \in 1 .. Len(tasks) : tasks[i].id = task_id
    THEN CHOOSE i \in 1 .. Len(tasks) :
            /\ tasks[i].id = task_id
            /\ \A j \in 1 .. (i - 1) : tasks[j].id # task_id
    ELSE 0

\* list.pop(idx)
Pop(tasks, idx) ==
    [i \in 1 .. (Len(tasks) - 1) |-> IF i < idx THEN tasks[i] ELSE tasks[i + 1]]

---------------------------------------------------------------------------
\* Results.  status: "ok" | "not_found" (HTTP 404) | "unprocessable" (HTTP
\* 422, request body rejected) | "key_error" (unhandled KeyError, HTTP 500).

Ret(st, task, tasks, wrote) ==
    [status |-> st, task |-> task, tasks |-> tasks, wrote |-> wrote]

Raise(data, st) == [data |-> data, ret |-> Ret(st, NoTask, <<>>, FALSE)]


---------------------------------------------------------------------------
\* main.py, JsonBinStorage: the document is the "record" of a remote bin,
\* read with GET and replaced with PUT.

\* Python truthiness of data.get(key): a missing key, [] and 0 are all falsy
Falsy_tasks(data) == ~data.has_tasks \/ data.tasks = <<>>

Falsy_last_id(data) == ~data.has_last_id \/ data.last_id = 0

\* JsonBinStorage._initialize; get_ok: the GET answered without an HTTP error
JsonBinStorage_initialize(medium, get_ok) ==
    IF ~get_ok \/ ~medium.exists
    THEN [data |-> EmptyDoc, ret |-> Ret("ok", NoTask, <<>>, TRUE)]
    ELSE IF Falsy_tasks(medium) \/ Falsy_last_id(medium)
         THEN [data |-> EmptyDoc, ret |-> Ret("ok", NoTask, <<>>, TRUE)]
         ELSE [data |-> medium, ret |-> Ret("ok", NoTask, <<>>, FALSE)]

\* JsonBinStorage.create_task without `data["last_id"] = new_id`
JsonBinStorage_create_task_stale_last_id(data, title, status) ==
    IF ~data.exists THEN Raise(data, "io_error")
    ELSE IF ~data.has_last_id \/ ~data.has_tasks THEN Raise(data, "key_error")
    ELSE LET new_id   == data.last_id + 1
             new_task == [id |-> new_id, title |-> title, status |-> status]
             saved    == [data EXCEPT !.tasks = Append(data.tasks, new_task)]
         IN  [data |-> saved, ret |-> Ret("ok", new_task, <<>>, TRUE)]

\* JsonBinStorage.create_task
JsonBinStorage_create_task(data, title, status) ==
    IF ~data.exists THEN Raise(data, "io_error")
    ELSE IF ~data.has_last_id \/ ~data.has_tasks THEN Raise(data, "key_error")
    ELSE LET new_id   == data.last_id + 1
             new_task == [id |-> new_id, title |-> title, status |-> status]
             saved    == [data EXCEPT !.tasks = Append(data.tasks, new_task),
                                      !.last_id = new_id]
         IN  [data |-> saved, ret |-> Ret("ok", new_task, <<>>, TRUE)]

\* JsonBinStorage.delete_task that also sets last_id to the largest id left
JsonBinStorage_delete_task_recomputes(data, task_id) ==
    IF ~data.exists THEN Raise(data, "io_error")
    ELSE IF ~data.has_tasks THEN Raise(data, "key_error")
    ELSE LET idx == FirstIdx(data.tasks, task_id)
         IN  IF idx = 0 THEN Raise(data, "not_found")
             ELSE LET rest == Pop(data.tasks, idx)
                  IN  [data |-> [data EXCEPT !.tasks = rest,
                                             !.last_id = MaxOf(Ids(rest))],
                       ret  |-> Ret("ok", data.tasks[idx], <<>>, TRUE)]

\* JsonBinStorage.delete_task
JsonBinStorage_delete_task(data, task_id) ==
    IF ~data.exists THEN Raise(data, "io_error")
    ELSE IF ~data.has_tasks THEN Raise(data, "key_error")
    ELSE LET idx == FirstIdx(data.tasks, task_id)
         IN  IF idx = 0 THEN Raise(data, "not_found")
             ELSE [data |-> [data EXCEPT !.tasks = Pop(data.tasks, idx)],
                   ret  |-> Ret("ok", data.tasks[idx], <<>>, TRUE)]

\* JsonBinStorage.get_all_tasks
JsonBinStorage_get_all_tasks(data) ==
    IF ~data.exists THEN Raise(data, "io_error")
    ELSE [data |-> data,
          ret  |-> Ret("ok", NoTask, IF data.has_tasks THEN data.tasks ELSE <<>>, FALSE)]

\* JsonBinStorage.update_task with t.update(...) applied to every task of
\* the loop up to and including the match
JsonBinStorage_update_task_all(data, task_id, title, status) ==
    IF ~data.exists THEN Raise(data, "io_error")
    ELSE IF ~data.has_tasks THEN Raise(data, "key_error")
    ELSE LET idx == FirstIdx(data.tasks, task_id)
         IN  IF idx = 0 THEN Raise(data, "not_found")
             ELSE LET t == [data.tasks[idx] EXCEPT !.title = title, !.status = status]
                      all == [i \in 1 .. Len(data.tasks) |->
                                IF i <= idx
                                THEN [data.tasks[i] EXCEPT !.title = title,
                                                           !.status = status]
                                ELSE data.tasks[i]]
                  IN  [data |-> [data EXCEPT !.tasks = all],
                       ret  |-> Ret("ok", t, <<>>, TRUE)]

\* JsonBinStorage.update_task: t.update(task.dict()) overwrites title and status
JsonBinStorage_update_task(data, task_id, title, status) ==
    IF ~data.exists THEN Raise(data, "io_error")
    ELSE IF ~data.has_tasks THEN Raise(data, "key_error")
    ELSE LET idx == FirstIdx(data.tasks, task_id)
         IN  IF idx = 0 THEN Raise(data, "not_found")
             ELSE LET t == [data.tasks[idx] EXCEPT !.title = title, !.status = status]
                  IN  [data |-> [data EXCEPT !.tasks[idx] = t],
                       ret  |-> Ret("ok", t, <<>>, TRUE)]

---------------------------------------------------------------------------
\* main.py, FileStorage: the document is the content of tasks.json.

\* FileStorage._initialize: only a missing file is initialised
FileStorage_initialize(medium) ==
    IF ~medium.exists
    THEN [data |-> EmptyDoc, ret |-> Ret("ok", NoTask, <<>>, TRUE)]
    ELSE [data |-> medium, ret |-> Ret("ok", NoTask, <<>>, FALSE)]

\* FileStorage.create_task without `data["last_id"] = new_id`
FileStorage_create_task_stale_last_id(data, title, status) ==
    IF ~data.exists THEN Raise(data, "io_error")
    ELSE IF ~data.has_last_id \/ ~data.has_tasks THEN Raise(data, "key_error")
    ELSE LET new_id   == data.last_id + 1
             new_task == [id |-> new_id, title |-> title, status |-> status]
             saved    == [data EXCEPT !.tasks = Append(data.tasks, new_task)]
         IN  [data |-> saved, ret |-> Ret("ok", new_task, <<>>, TRUE)]

\* FileStorage.create_task
FileStorage_create_task(data, title, status) ==
    IF ~data.exists THEN Raise(data, "io_error")
    ELSE IF ~data.has_last_id \/ ~data.has_tasks THEN Raise(data, "key_error")
    ELSE LET new_id   == data.last_id + 1
             new_task == [id |-> new_id, title |-> title, status |-> status]
             saved    == [data EXCEPT !.tasks = Append(data.tasks, new_task),
                                      !.last_id = new_id]
         IN  [data |-> saved, ret |-> Ret("ok", new_task, <<>>, TRUE)]

\* FileStorage.delete_task that also sets last_id to the largest id left
FileStorage_delete_task_recomputes(data, task_id) ==
    IF ~data.exists THEN Raise(data, "io_error")
    ELSE IF ~data.has_tasks THEN Raise(data, "key_error")
    ELSE LET idx == FirstIdx(data.tasks, task_id)
         IN  IF idx = 0 THEN Raise(data, "not_found")
             ELSE LET rest == Pop(data.tasks, idx)
                  IN  [data |-> [data EXCEPT !.tasks = rest,
                                             !.last_id = MaxOf(Ids(rest))],
                       ret  |-> Ret("ok", data.tasks[idx], <<>>, TRUE)]

\* FileStorage.delete_task
FileStorage_delete_task(data, task_id) ==
    IF ~data.exists THEN Raise(data, "io_error")
    ELSE IF ~data.has_tasks THEN Raise(data, "key_error")
    ELSE LET idx == FirstIdx(data.tasks, task_id)
         IN  IF idx = 0 THEN Raise(data, "not_found")
             ELSE [data |-> [data EXCEPT !.tasks = Pop(data.tasks, idx)],
                   ret  |-> Ret("ok", data.tasks[idx], <<>>, TRUE)]

\* FileStorage.get_all_tasks
FileStorage_get_all_tasks(data) ==
    IF ~data.exists THEN Raise(data, "io_error")
    ELSE [data |-> data,
          ret  |-> Ret("ok", NoTask, IF data.has_tasks THEN data.tasks ELSE <<>>, FALSE)]

\* FileStorage.update_task with the save moved out of the loop: a miss
\* rewrites the file too
FileStorage_update_task_saves_on_miss(data, task_id, title, status) ==
    IF ~data.exists THEN Raise(data, "io_error")
    ELSE IF ~data.has_tasks THEN Raise(data, "key_error")
    ELSE LET idx == FirstIdx(data.tasks, task_id)
         IN  IF idx = 0
             THEN [data |-> data, ret |-> Ret("not_found", NoTask, <<>>, TRUE)]
             ELSE LET t == [data.tasks[idx] EXCEPT !.title = title, !.status = status]
                  IN  [data |-> [data EXCEPT !.tasks[idx] = t],
                       ret  |-> Ret("ok", t, <<>>, TRUE)]

\* FileStorage.update_task: t.update(task.dict()) overwrites title and status
FileStorage_update_task(data, task_id, title, status) ==
    IF ~data.exists THEN Raise(data, "io_error")
    ELSE IF ~data.has_tasks THEN Raise(data, "key_error")
    ELSE LET idx == FirstIdx(data.tasks, task_id)
         IN  IF idx = 0 THEN Raise(data, "not_found")
             ELSE LET t == [data.tasks[idx] EXCEPT !.title = title, !.status = status]
                  IN  [data |-> [data EXCEPT !.tasks[idx] = t],
                       ret  |-> Ret("ok", t, <<>>, TRUE)]

---------------------------------------------------------------------------
\* main_with_json.py, FileStorage.

\* FileStorage._initialize_storage: os.path.exists decides
WithJson_initialize_storage(medium) ==
    IF ~medium.exists
    THEN [data |-> EmptyDoc, ret |-> Ret("ok", NoTask, <<>>, TRUE)]
    ELSE [data |-> medium, ret |-> Ret("ok", NoTask, <<>>, FALSE)]

\* main_with_json.py FileStorage.create_task with insert(0, new_task)
WithJson_create_task_prepends(data, title, status) ==
    IF ~data.exists THEN Raise(data, "io_error")
    ELSE IF ~data.has_last_id \/ ~data.has_tasks THEN Raise(data, "key_error")
    ELSE LET new_id   == data.last_id + 1
             new_task == [id |-> new_id, title |-> title, status |-> status]
             saved    == [data EXCEPT !.tasks = <<new_task>> \o data.tasks,
                                      !.last_id = new_id]
         IN  [data |-> saved, ret |-> Ret("ok", new_task, <<>>, TRUE)]

\* main_with_json.py FileStorage.create_task without `data["last_id"] = new_id`
WithJson_create_task_stale_last_id(data, title, status) ==
    IF ~data.exists THEN Raise(data, "io_error")
    ELSE IF ~data.has_last_id \/ ~data.has_tasks THEN Raise(data, "key_error")
    ELSE LET new_id   == data.last_id + 1
             new_task == [id |-> new_id, title |-> title, status |-> status]
             saved    == [data EXCEPT !.tasks = Append(data.tasks, new_task)]
         IN  [data |-> saved, ret |-> Ret("ok", new_task, <<>>, TRUE)]

\* main_with_json.py FileStorage.create_task
WithJson_create_task(data, title, status) ==
    IF ~data.exists THEN Raise(data, "io_error")
    ELSE IF ~data.has_last_id \/ ~data.has_tasks THEN Raise(data, "key_error")
    ELSE LET new_id   == data.last_id + 1
             new_task == [id |-> new_id, title |-> title, status |-> status]
             saved    == [data EXCEPT !.tasks = Append(data.tasks, new_task),
                                      !.last_id = new_id]
         IN  [data |-> saved, ret |-> Ret("ok", new_task, <<>>, TRUE)]

\* main_with_json.py FileStorage.delete_task with pop() in place of pop(i)
WithJson_delete_task_pops_last(data, task_id) ==
    IF ~data.exists THEN Raise(data, "io_error")
    ELSE IF ~data.has_tasks THEN Raise(data, "key_error")
    ELSE LET idx == FirstIdx(data.tasks, task_id)
         IN  IF idx = 0 THEN Raise(data, "not_found")
             ELSE [data |-> [data EXCEPT !.tasks = Pop(data.tasks, Len(data.tasks))],
                   ret  |-> Ret("ok", data.tasks[Len(data.tasks)], <<>>, TRUE)]

\* main_with_json.py FileStorage.delete_task
WithJson_delete_task(data, task_id) ==
    IF ~data.exists THEN Raise(data, "io_error")
    ELSE IF ~data.has_tasks THEN Raise(data, "key_error")
    ELSE LET idx == FirstIdx(data.tasks, task_id)
         IN  IF idx = 0 THEN Raise(data, "not_found")
             ELSE [data |-> [data EXCEPT !.tasks = Pop(data.tasks, idx)],
                   ret  |-> Ret("ok", data.tasks[idx], <<>>, TRUE)]

\* main_with_json.py FileStorage.get_all_tasks
WithJson_get_all_tasks(data) ==
    IF ~data.exists THEN Raise(data, "io_error")
    ELSE [data |-> data,
          ret  |-> Ret("ok", NoTask, IF data.has_tasks THEN data.tasks ELSE <<>>, FALSE)]

\* main_with_json.py FileStorage.update_task: a field that is None is skipped
WithJson_update_task(data, task_id, title, status) ==
    IF ~data.exists THEN Raise(data, "io_error")
    ELSE IF ~data.has_tasks THEN Raise(data, "key_error")
    ELSE LET idx == FirstIdx(data.tasks, task_id)
         IN  IF idx = 0 THEN Raise(data, "not_found")
             ELSE LET t0 == data.tasks[idx]
                      t1 == IF title # None THEN [t0 EXCEPT !.title = title] ELSE t0
                      t2 == IF status # None THEN [t1 EXCEPT !.status = status] ELSE t1
                  IN  [data |-> [data EXCEPT !.tasks[idx] = t2],
                       ret  |-> Ret("ok", t2, <<>>, TRUE)]

---------------------------------------------------------------------------
\* The request models and the endpoints.  FastAPI answers 422 without
\* calling the handler when the body does not fit the pydantic model.

\* main.py TaskBaseModel / TaskCreate / TaskUpdate: title and status are
\* both required strings
TaskBaseModel_valid(title, status) == title # None /\ status # None

\* main_with_json.py TaskCreate: title required, status defaults to "pending"
WithJson_TaskCreate_valid(title) == title # None

WithJson_TaskCreate_status(status) == IF status = None THEN "pending" ELSE status

\* the storage object built at import time: its constructor
Storage_init(im, medium, get_ok) ==
    CASE im = "jsonbin"   -> JsonBinStorage_initialize(medium, get_ok)
      [] im = "file"      -> FileStorage_initialize(medium)
      [] im = "with_json" -> WithJson_initialize_storage(medium)

\* GET /tasks
Endpoint_get_all_tasks(im, data) ==
    CASE im = "jsonbin"   -> JsonBinStorage_get_all_tasks(data)
      [] im = "file"      -> FileStorage_get_all_tasks(data)
      [] im = "with_json" -> WithJson_get_all_tasks(data)

\* POST /tasks
Endpoint_create_task(im, data, title, status) ==
    CASE im = "jsonbin" ->
            IF TaskBaseModel_valid(title, status)
            THEN JsonBinStorage_create_task(data, title, status)
            ELSE Raise(data, "unprocessable")
      [] im = "file" ->
            IF TaskBaseModel_valid(title, status)
            THEN FileStorage_create_task(data, title, status)
            ELSE Raise(data, "unprocessable")
      [] im = "with_json" ->
            IF WithJson_TaskCreate_valid(title)
            THEN WithJson_create_task(data, title, WithJson_TaskCreate_status(status))
            ELSE Raise(data, "unprocessable")

\* PUT /tasks/{task_id}
Endpoint_update_task(im, data, task_id, title, status) ==
    CASE im = "jsonbin" ->
            IF TaskBaseModel_valid(title, status)
            THEN JsonBinStorage_update_task(data, task_id, title, status)
            ELSE Raise(data, "unprocessable")
      [] im = "file" ->
            IF TaskBaseModel_valid(title, status)
            THEN FileStorage_update_task(data, task_id, title, status)
            ELSE Raise(data, "unprocessable")
      [] im = "with_json" ->
            WithJson_update_task(data, task_id, title, status)

\* DELETE /tasks/{task_id}
Endpoint_delete_task(im, data, task_id) ==
    CASE im = "jsonbin"   -> JsonBinStorage_delete_task(data, task_id)
      [] im = "file"      -> FileStorage_delete_task(data, task_id)
      [] im = "with_json" -> WithJson_delete_task(data, task_id)

---------------------------------------------------------------------------
\* The state machine: one process, requests handled one after another.

Call(op, task_id, title, status, get_ok) ==
    [op |-> op, task_id |-> task_id, title |-> title, status |-> status,
     get_ok |-> get_ok]

\* what is remembered of the call before the most recent one: whether it
\* was a create or a delete that succeeded, and the id of the task it returned
Summary(call, r) ==
    IF r.status = "ok" /\ call.op \in {"create", "delete"}
    THEN [op |-> call.op, id |-> r.task.id]
    ELSE [op |-> "other", id |-> 0]

NoPrev == [op |-> "other", id |-> 0]

\* the threads of the server's pool that run the (synchronous) handlers
Workers == {1, 2}

\* a worker with no request in progress
Idle == [pc |-> "idle", call |-> Call("none", 0, None, None, TRUE), data |-> Absent,
         stale |-> FALSE]

\* only the remote backend has a GET that can fail
GetOutcomes(im) == IF im = "jsonbin" THEN BOOLEAN ELSE {TRUE}

Init ==
    \E im \in Impls, medium \in InitialMedia :
        \E get_ok \in GetOutcomes(im) :
            LET r == Storage_init(im, medium, get_ok)
            IN  /\ impl = im
                /\ store = r.data
                /\ ret = r.ret
                /\ lastOp = Call("init", 0, None, None, get_ok)
                /\ before = medium
                /\ prevOp = NoPrev
                /\ run = IF r.data = EmptyDoc THEN 0 ELSE -1
                /\ issued = {}
                /\ earlier = {}
                /\ torn = FALSE
                /\ workers = [w \in Workers |-> Idle]
                /\ raced = FALSE
                /\ dupIssued = FALSE
                /\ started = 0

\* the process is started again on the medium the last run left behind
Restart ==
    \E get_ok \in GetOutcomes(impl) :
        LET r == Storage_init(impl, store, get_ok)
        IN  /\ store' = r.data
            /\ ret' = r.ret
            /\ lastOp' = Call("init", 0, None, None, get_ok)
            /\ before' = store
            /\ prevOp' = Summary(lastOp, ret)
            /\ run' = IF r.data = EmptyDoc THEN 0 ELSE -1
            /\ issued' = {}
            /\ earlier' = IF get_ok THEN earlier \cup issued ELSE {}
            /\ UNCHANGED <<impl, aside>>

GetAllTasks ==
    LET r == Endpoint_get_all_tasks(impl, store)
    IN  /\ store' = r.data
        /\ ret' = r.ret
        /\ lastOp' = Call("list", 0, None, None, TRUE)
        /\ before' = store
        /\ prevOp' = Summary(lastOp, ret)
        /\ UNCHANGED <<impl, run, issued, earlier, aside>>

CreateTask ==
    /\ store.last_id < MaxId
    /\ \E title \in Titles, status \in Statuses \cup {None} :
        LET r == Endpoint_create_task(impl, store, title, status)
        IN  /\ store' = r.data
            /\ ret' = r.ret
            /\ lastOp' = Call("create", 0, title, status, TRUE)
            /\ before' = store
            /\ prevOp' = Summary(lastOp, ret)
            /\ run' = IF r.ret.status = "ok" /\ run >= 0 THEN run + 1 ELSE run
            /\ issued' = IF r.ret.status = "ok" THEN issued \cup {r.ret.task.id}
                                                ELSE issued
            /\ UNCHANGED <<impl, earlier, aside>>

UpdateTask ==
    \E task_id \in TaskIds, title \in Titles \cup {None}, status \in Statuses \cup {None} :
        LET r == Endpoint_update_task(impl, store, task_id, title, status)
        IN  /\ store' = r.data
            /\ ret' = r.ret
            /\ lastOp' = Call("update", task_id, title, status, TRUE)
            /\ before' = store
            /\ prevOp' = Summary(lastOp, ret)
            /\ UNCHANGED <<impl, run, issued, earlier, aside>>

DeleteTask ==
    \E task_id \in TaskIds :
        LET r == Endpoint_delete_task(impl, store, task_id)
        IN  /\ store' = r.data
            /\ ret' = r.ret
            /\ lastOp' = Call("delete", task_id, None, None, TRUE)
            /\ before' = store
            /\ prevOp' = Summary(lastOp, ret)
            /\ run' = IF r.ret.status = "ok" THEN -1 ELSE run
            /\ UNCHANGED <<impl, issued, earlier, aside>>

Next == Restart \/ GetAllTasks \/ CreateTask \/ UpdateTask \/ DeleteTask

Spec == Init /\ [][Next]_vars


---------------------------------------------------------------------------
\* Storage that can fail.  A call loads the whole document and, when it has
\* something to write, saves the whole document; either step may raise.
\*   "load": requests.get / open(path, "r") raises, nothing was read
\*   "save": requests.put / open(path, "w") raises, nothing was written
\*   "torn": open(path, "w") has truncated tasks.json and json.dump raises
\* The exception is not caught by the storage class or the endpoint.

Failures == {"none", "load", "save", "torn"}

\* the document left behind by a save that raised before writing: a save
\* that wrote first and raised afterwards would leave `new`
SaveRefused_writes(old, new) == new

SaveRefused(old, new) == old

\* the failures that can strike a call whose failure-free result is r
FailuresFor(im, is_torn, r) ==
    IF r.ret.status = "unprocessable" \/ is_torn THEN {"none"}
    ELSE IF ~r.ret.wrote THEN {"none", "load"}
    ELSE IF im = "jsonbin" THEN {"none", "load", "save"}
    ELSE Failures

\* what a call makes of the medium under a failure; r is the call's result
\* on the document it would load
Outcome(medium, is_torn, r, fail) ==
    IF r.ret.status = "unprocessable"
    THEN [data |-> medium, ret |-> r.ret, torn |-> is_torn]
    ELSE IF is_torn
    THEN [data |-> medium, ret |-> Raise(medium, "decode_error").ret, torn |-> TRUE]
    ELSE CASE fail = "load" ->
                [data |-> medium, ret |-> Raise(medium, "io_error").ret, torn |-> FALSE]
           [] fail = "save" ->
                [data |-> SaveRefused(medium, r.data),
                 ret |-> Raise(medium, "io_error").ret, torn |-> FALSE]
           [] fail = "torn" ->
                [data |-> medium, ret |-> Raise(medium, "write_error").ret, torn |-> TRUE]
           [] fail = "none" ->
                [data |-> r.data, ret |-> r.ret, torn |-> FALSE]

\* one request under a failure
Faulty(call, r, fail) ==
    LET o == Outcome(store, torn, r, fail)
    IN  /\ fail \in FailuresFor(impl, torn, r)
        /\ store' = o.data
        /\ ret' = o.ret
        /\ torn' = o.torn
        /\ lastOp' = call
        /\ before' = store
        /\ UNCHANGED <<impl, prevOp, run, issued, earlier, workers, raced, dupIssued,
                       started>>

GetAllTasksF ==
    \E fail \in Failures :
        Faulty(Call("list", 0, None, None, TRUE),
               Endpoint_get_all_tasks(impl, store), fail)

CreateTaskF ==
    /\ store.last_id < MaxId
    /\ \E title \in Titles, status \in Statuses \cup {None}, fail \in Failures :
          Faulty(Call("create", 0, title, status, TRUE),
                 Endpoint_create_task(impl, store, title, status), fail)

UpdateTaskF ==
    \E task_id \in TaskIds, title \in Titles \cup {None},
       status \in Statuses \cup {None}, fail \in Failures :
          Faulty(Call("update", task_id, title, status, TRUE),
                 Endpoint_update_task(impl, store, task_id, title, status), fail)

DeleteTaskF ==
    \E task_id \in TaskIds, fail \in Failures :
        Faulty(Call("delete", task_id, None, None, TRUE),
               Endpoint_delete_task(impl, store, task_id), fail)

NextFail == GetAllTasksF \/ CreateTaskF \/ UpdateTaskF \/ DeleteTaskF

SpecFail == Init /\ [][NextFail]_vars

---------------------------------------------------------------------------
\* Overlapping requests.  The handlers are plain `def` functions, which the
\* server runs in a thread pool; the storage classes take no lock.  A
\* mutating call is two steps on the medium: _load_data reads the whole
\* document, _save_data replaces the whole document.

\* the number of requests the specification lets the workers take
MaxCalls == 3

\* what a mutating call computes from the document it loaded
Apply(im, data, call) ==
    CASE call.op = "create" ->
            Endpoint_create_task(im, data, call.title, call.status)
      [] call.op = "update" ->
            Endpoint_update_task(im, data, call.task_id, call.title, call.status)
      [] call.op = "delete" ->
            Endpoint_delete_task(im, data, call.task_id)

\* the mutating requests; the request model is validated before the storage
\* is called, so an invalid body never reaches _load_data
MutatingCalls(im) ==
    { c \in   { Call("create", 0, title, status, TRUE) :
                    title \in Titles, status \in Statuses \cup {None} }
         \cup { Call("update", task_id, title, status, TRUE) :
                    task_id \in TaskIds, title \in Titles \cup {None},
                    status \in Statuses \cup {None} }
         \cup { Call("delete", task_id, None, None, TRUE) : task_id \in TaskIds } :
      Apply(im, EmptyDoc, c).ret.status # "unprocessable" }

\* worker w takes a request and loads the document
Load(w) ==
    /\ workers[w].pc = "idle"
    /\ started < MaxCalls
    /\ \E c \in MutatingCalls(impl) :
          /\ c.op = "create" => (store.exists /\ store.has_last_id => store.last_id < MaxId)
          /\ workers' = [workers EXCEPT ![w] =
                            [pc |-> "loaded", call |-> c, data |-> store, stale |-> FALSE]]
    /\ started' = started + 1
    /\ UNCHANGED <<impl, store, lastOp, ret, before, prevOp, run, issued, earlier,
                   torn, raced, dupIssued>>

\* worker w computes on the document it loaded, saves and returns
Save(w) ==
    /\ workers[w].pc = "loaded"
    /\ LET c == workers[w].call
           r == Apply(impl, workers[w].data, c)
           created == c.op = "create" /\ r.ret.status = "ok"
       IN  /\ store' = IF r.ret.wrote THEN r.data ELSE store
           /\ ret' = r.ret
           /\ lastOp' = c
           /\ before' = workers[w].data
           /\ workers' = [v \in Workers |->
                            IF v = w THEN Idle
                            ELSE IF workers[v].pc = "loaded" /\ r.ret.wrote
                                 THEN [workers[v] EXCEPT !.stale = TRUE]
                                 ELSE workers[v]]
           /\ raced' = (raced \/ (workers[w].stale /\ r.ret.wrote))
           /\ issued' = IF created THEN issued \cup {r.ret.task.id} ELSE issued
           /\ dupIssued' = (dupIssued \/ (created /\ r.ret.task.id \in issued))
    /\ UNCHANGED <<impl, prevOp, run, earlier, torn, started>>

NextConc == \E w \in Workers : Load(w) \/ Save(w)

SpecConc == Init /\ [][NextConc]_vars

---------------------------------------------------------------------------
\* Properties.

Ok(op) == lastOp.op = op /\ ret.status = "ok"

\* the task the most recent update or delete was aimed at, as it was stored
\* when the call started
Target == before.tasks[FirstIdx(before.tasks, lastOp.task_id)]

\* the request body of the most recent call passed validation, so the
\* storage method was called
Dispatched == ret.status # "unprocessable"

\* C1: starting from the freshly initialised empty document, as long as no
\* delete has succeeded, the k-th successful create returns id k and last_id
\* equals k afterwards (run counts those creates).
C1_CreateIdsSequential ==
    run >= 0 =>
        /\ store.last_id = run
        /\ Ok("create") => ret.task.id = run

C1_Witness == run = 2 /\ Ok("create") /\ ret.task.id = 2

\* C2 as claimed: after every successful delete, last_id equals the maximum
\* id among the remaining tasks, or 0 if none remains.
C2_LastIdRecomputed ==
    Ok("delete") => store.last_id = MaxOf(Ids(store.tasks))

\* C2 as amended: a successful delete leaves last_id as it was before the
\* call, which is at least the deleted id and at least every remaining id;
\* deleting the only task leaves list() empty with last_id unchanged.
C2_LastIdKeptByDelete ==
    Ok("delete") =>
        /\ store.last_id = before.last_id
        /\ store.last_id >= ret.task.id
        /\ store.last_id >= MaxOf(Ids(store.tasks))
        /\ Len(before.tasks) = 1 =>
              Endpoint_get_all_tasks(impl, store).ret.tasks = <<>>

C2_Witness ==
    /\ Ok("delete")
    /\ ret.task.id = 1
    /\ Len(before.tasks) = 1
    /\ store.tasks = <<>>
    /\ store.last_id = 1

\* the most recent call is a successful create that directly follows a
\* successful delete of the task that held the highest id
CreateAfterDeleteOfHighest ==
    /\ Ok("create")
    /\ prevOp.op = "delete"
    /\ prevOp.id > MaxOf(Ids(before.tasks))

\* C3 as claimed: deleting the task with the highest id and then calling
\* create returns a new task carrying that same id again.
C3_IdReusedAfterDelete ==
    CreateAfterDeleteOfHighest => ret.task.id = prevOp.id

\* C3 as amended: deleting the task with the highest id and then calling
\* create returns a new task whose id is last_id + 1, strictly greater than
\* the deleted id: the id is not reused.
C3_IdNotReusedAfterDelete ==
    CreateAfterDeleteOfHighest =>
        /\ ret.task.id = before.last_id + 1
        /\ ret.task.id > prevOp.id

C3_Witness ==
    /\ CreateAfterDeleteOfHighest
    /\ prevOp.id = 1
    /\ before.tasks = <<>>
    /\ ret.task.id = 2

\* C4: in every reachable state last_id is greater than or equal to the id
\* of every task in the document.
C4_LastIdBoundsIds ==
    \A i \in 1 .. Len(store.tasks) : store.tasks[i].id <= store.last_id

C4_Witness ==
    /\ Ok("delete")
    /\ Len(store.tasks) = 1
    /\ store.tasks[1].id < store.last_id

\* C5: in every reachable state no two tasks of the document have the same
\* id, and a successful update leaves the id of every task as it was.
C5_IdsUniqueAndImmutable ==
    /\ \A i, j \in 1 .. Len(store.tasks) :
          store.tasks[i].id = store.tasks[j].id => i = j
    /\ Ok("update") =>
          /\ Len(store.tasks) = Len(before.tasks)
          /\ \A i \in 1 .. Len(store.tasks) : store.tasks[i].id = before.tasks[i].id
          /\ ret.task.id = lastOp.task_id

C5_Witness ==
    /\ Ok("update")
    /\ Len(store.tasks) = 2
    /\ ret.task # Target

\* what update(id, title?, status?) makes of the targeted task when only the
\* fields that are present are applied
PartiallyUpdated(t) ==
    [id     |-> t.id,
     title  |-> IF lastOp.title = None THEN t.title ELSE lastOp.title,
     status |-> IF lastOp.status = None THEN t.status ELSE lastOp.status]

\* C6: update(id, title?, status?) on an existing task, with at least one of
\* the two fields present, applies only the fields that are present: an
\* omitted field keeps its prior value, and the returned task equals the
\* stored task after the update.
C6_PartialUpdate ==
    ( /\ lastOp.op = "update"
      /\ lastOp.task_id \in Ids(before.tasks)
      /\ (lastOp.title # None \/ lastOp.status # None) ) =>
        /\ ret.status = "ok"
        /\ ret.task = PartiallyUpdated(Target)
        /\ store.tasks[FirstIdx(store.tasks, lastOp.task_id)] = ret.task

\* C7: update(id, ...) and delete(id) that reach the store when the document
\* has a task list in which no task has that id fail with NotFound (404),
\* perform no write and leave the persisted document exactly as it was.
C7_NotFoundLeavesDocument ==
    ( /\ lastOp.op \in {"update", "delete"}
      /\ Dispatched
      /\ before.has_tasks
      /\ lastOp.task_id \notin Ids(before.tasks) ) =>
        /\ ret.status = "not_found"
        /\ ~ret.wrote
        /\ store = before

C7_Witness ==
    /\ lastOp.op = "update"
    /\ ret.status = "not_found"
    /\ Len(store.tasks) = 1
    /\ lastOp.task_id \notin Ids(before.tasks)

\* the most recent call is a successful update that passes the targeted
\* task's own current title and status
UpdateWithSameFields ==
    /\ Ok("update")
    /\ lastOp.title = Target.title
    /\ lastOp.status = Target.status

\* C8: a successful create followed immediately by list() returns the task
\* sequence as it was before the create, in the same order, with the returned
\* task {id, title, status} appended last; and an update of a task with its
\* own current title and status leaves the result of list() unchanged.
C8_CreateListRoundTrip ==
    [][ /\ (Ok("create") /\ lastOp'.op = "list") =>
              /\ ret'.status = "ok"
              /\ ret'.tasks = Append(before.tasks, ret.task)
              /\ ret.task.title = lastOp.title
              /\ ret.task.status =
                    (IF lastOp.status = None THEN "pending" ELSE lastOp.status)
        /\ UpdateWithSameFields' =>
              (Endpoint_get_all_tasks(impl, store).ret.tasks
                  = Endpoint_get_all_tasks(impl, before).ret.tasks)'
      ]_vars

C8_Witness ==
    /\ lastOp.op = "list"
    /\ prevOp.op = "create"
    /\ Len(ret.tasks) = 2
    /\ ret.tasks[2].id = prevOp.id

\* two calls returned the same value or error and left the same document
SameOutcome(j, f) ==
    /\ j.data = f.data
    /\ j.ret.status = f.ret.status
    /\ j.ret.task = f.ret.task
    /\ j.ret.tasks = f.ret.tasks

\* C9: started on the same stored document (both keys present, storage
\* reachable), JsonBinStorage and FileStorage hold the same document after
\* their constructors, and every list, create, update and delete call then
\* returns the same value or error and leaves the same document in both.
C9_BackendsInterchangeable ==
    WellFormed(store) =>
        LET j == JsonBinStorage_initialize(store, TRUE).data
            f == FileStorage_initialize(store).data
        IN  /\ j = f
            /\ SameOutcome(JsonBinStorage_get_all_tasks(j), FileStorage_get_all_tasks(f))
            /\ \A title \in Titles, status \in Statuses :
                  SameOutcome(JsonBinStorage_create_task(j, title, status),
                              FileStorage_create_task(f, title, status))
            /\ \A task_id \in TaskIds, title \in Titles, status \in Statuses :
                  SameOutcome(JsonBinStorage_update_task(j, task_id, title, status),
                              FileStorage_update_task(f, task_id, title, status))
            /\ \A task_id \in TaskIds :
                  SameOutcome(JsonBinStorage_delete_task(j, task_id),
                              FileStorage_delete_task(f, task_id))

\* the GET of the most recent constructor run failed, or the document it
\* returned lacks the tasks key or the last_id key
GetFailedOrKeyMissing ==
    \/ ~lastOp.get_ok
    \/ ~before.exists
    \/ ~before.has_tasks
    \/ ~before.has_last_id

\* C10: the JsonBinStorage constructor PUTs the empty document only when the
\* GET fails or the returned document lacks tasks or last_id; when the
\* document has both keys, whatever their values, it performs no PUT and the
\* stored tasks and last_id are retained.
C10_InitKeepsCompleteDocument ==
    (lastOp.op = "init" /\ impl = "jsonbin") =>
        /\ ret.wrote => GetFailedOrKeyMissing
        /\ ~GetFailedOrKeyMissing => store = before

\* C11: for every backend, a stored document that exists but lacks the
\* tasks key or the last_id key is reset to the empty document by the
\* constructor; so after the constructor the document always has both keys
\* and no later call fails on a missing key.
C11_InitResetsMalformed ==
    /\ (lastOp.op = "init" /\ before.exists
            /\ ~(before.has_tasks /\ before.has_last_id)) => store = EmptyDoc
    /\ WellFormed(store)
    /\ ret.status # "key_error"

C15_UpdateAndListFrame ==
    /\ Ok("update") =>
          /\ Len(store.tasks) = Len(before.tasks)
          /\ \A i \in 1 .. Len(store.tasks) :
                /\ store.tasks[i].id = before.tasks[i].id
                /\ store.tasks[i].id # lastOp.task_id => store.tasks[i] = before.tasks[i]
          /\ store.last_id = before.last_id
          /\ [store EXCEPT !.tasks = before.tasks] = before
    /\ lastOp.op = "list" => (store = before /\ ~ret.wrote)

C15_Witness ==
    /\ Ok("update")
    /\ lastOp.task_id = 2
    /\ Len(store.tasks) = 2
    /\ ret.task # Target

\* C16: while the process is not started again and requests do not
\* overlap, no call lowers the persisted last_id, and no create returns an
\* id that an earlier create of the run returned, deleted or not.
C16_LastIdMonotoneNoReuse ==
    [][ lastOp'.op # "init" =>
            /\ store'.last_id >= store.last_id
            /\ Ok("create")' => ret'.task.id \notin issued
      ]_vars

C16_Witness ==
    /\ Ok("create")
    /\ ret.task.id = 2
    /\ 1 \in issued
    /\ 1 \notin Ids(store.tasks)

\* C17: after JsonBinStorage is constructed again with the GET succeeding,
\* the first create returns an id greater than every id a create returned
\* in the earlier runs.
C17_NoReuseAcrossRestart ==
    (impl = "jsonbin" /\ Ok("create") /\ issued = {ret.task.id}) =>
        \A e \in earlier : ret.task.id > e

\* the most recent call raised because the storage could not be read or
\* written
StorageFailed == ret.status \in {"io_error", "write_error", "decode_error"}

SavesStale(w) ==
    /\ workers[w].pc = "loaded"
    /\ workers[w].stale
    /\ workers'[w].pc = "idle"

\* C13: when a mutating call saves after another call has saved since it
\* loaded, it returns as it would have alone and the persisted document is
\* the document it loaded with its own change only: a create leaves the
\* loaded tasks plus its own task and last_id one above the loaded value, an
\* update leaves the loaded ids, a delete the loaded ids without its own.
\* What the other call saved is gone although that call returned success.
C13_LaterSaveWins ==
    [][ \A w \in Workers :
          SavesStale(w) /\ ret'.status = "ok" =>
              LET loaded == workers[w].data
              IN  /\ store'.last_id =
                        IF lastOp'.op = "create" THEN loaded.last_id + 1
                        ELSE loaded.last_id
                  /\ lastOp'.op = "create" =>
                        store'.tasks = Append(loaded.tasks, ret'.task)
                  /\ lastOp'.op = "update" =>
                        /\ Len(store'.tasks) = Len(loaded.tasks)
                        /\ Ids(store'.tasks) = Ids(loaded.tasks)
                  /\ lastOp'.op = "delete" =>
                        /\ Len(store'.tasks) = Len(loaded.tasks) - 1
                        /\ Ids(store'.tasks) = Ids(loaded.tasks) \ {lastOp'.task_id}
      ]_vars

\* two creates loaded the empty document, both returned success with id 1,
\* and the document holds the task of the later save only
C13_Witness ==
    /\ raced
    /\ dupIssued
    /\ Ok("create")
    /\ before = EmptyDoc
    /\ store.tasks = <<ret.task>>
    /\ started = 2
    /\ \A w \in Workers : workers[w].pc = "idle"

\* C18: however the load and save steps of create, update and delete
\* interleave, the persisted document has pairwise distinct task ids and a
\* last_id at least as large as every id in it.
C18_DocumentConsistentUnderOverlap ==
    WellFormed(store) =>
        /\ \A i, j \in 1 .. Len(store.tasks) :
              store.tasks[i].id = store.tasks[j].id => i = j
        /\ \A i \in 1 .. Len(store.tasks) : store.tasks[i].id <= store.last_id

\* an update that loaded before a create saved has put back the document
\* without the created task and with the lower last_id
C18_Witness ==
    /\ raced
    /\ Ok("update")
    /\ 2 \in issued
    /\ Len(store.tasks) = 1
    /\ store.last_id = 1

\* C19 as claimed: no two successful creates on the same store return the
\* same id, also when the two calls overlap.
C19_CreateIdsDistinct == ~dupIssued

\* C19 as amended: two successful creates return the same id only if some
\* mutating call saved a document it had loaded before another call's save;
\* as long as no call does, every successful create returns a new id.
C19_CreateIdsDistinctUnlessOverlap == dupIssued => raced

C19_Witness ==
    /\ ~raced
    /\ Ok("create")
    /\ issued = {1, 2}
    /\ started = 2

============================================================================
